---- MODULE Spec2Model ----
(***************************************************************************)
(* Model of backend/open_webui/utils/crystal.py: the three structure       *)
(* loaders, structure_to_scene_dict, _ensure_crystal_dependencies and      *)
(* _append_axes.                                                           *)
(*                                                                         *)
(* One call runs at a time (the module is synchronous and keeps no state   *)
(* of its own).  Every external-library call is one step whose result is   *)
(* chosen nondeterministically: it returns a value or raises an exception. *)
(* Raised exceptions are instances of Exception (plain, or fastapi's       *)
(* HTTPException); BaseException-only signals such as KeyboardInterrupt    *)
(* are outside the model.                                                  *)
(*                                                                         *)
(* Python floats are modelled as exact rationals [n, d]; lattice rows are  *)
(* drawn from vectors whose Euclidean norm is rational, so that the square *)
(* root is exact.  Floating-point rounding is outside the model.           *)
(***************************************************************************)
EXTENDS Integers, Sequences, FiniteSets, TLC

VARIABLES
    env,          \* os.environ restricted to the CT_AXES_* names (unset = not in DOMAIN)
    importable,   \* the modules whose import succeeds in this process
    pc,           \* position of the running call
    entry,        \* the public entry point that was called
    structure,    \* the structure argument / the parsed structure
    scene_json,   \* the mapping returned by scene_obj.to_json(), mutated in place
    outcome,      \* how the call ended: returned, or raised an HTTPException
    logged,       \* the messages passed to log.exception / log.debug in this call
    steps,        \* the steps this call has executed, in order
    caught,       \* the exception bound by the last "except ... as exc" (or none)
    envParsed     \* the CT_AXES_* names _append_axes has read in this call

vars == <<env, importable, pc, entry, structure, scene_json, outcome, logged, steps, caught, envParsed>>

\* ------------------------------------------------------------------ bounds
MaxContents == 1      \* most nodes in the scene that to_json() returns

\* ------------------------------------------------------- program constants
HTTP_500_INTERNAL_SERVER_ERROR == 500
HTTP_400_BAD_REQUEST == 400

DependencyDetail ==
    "Crystal structure dependencies are unavailable. Install 'pymatgen' and 'crystal-toolkit'."
SceneFailureDetail == "Failed to generate crystal scene from structure."

StructureModule == "pymatgen.core.structure"
GuardModules == {"pymatgen.analysis.graphs", "pymatgen.analysis.local_env",
                 "crystal_toolkit.core.legend", "crystal_toolkit.renderables"}
Modules == {StructureModule} \cup GuardModules

Loaders == {"cif_file_to_scene", "vasp_poscar_file_to_scene", "cif_string_to_scene"}
EntryPoints == Loaders \cup {"structure_to_scene_dict"}

\* ------------------------------------------------------------ float values
Abs(i) == IF i < 0 THEN -i ELSE i

RECURSIVE GCD(_, _)
GCD(a, b) == IF b = 0 THEN a ELSE GCD(b, a % b)

\* the rational n/d in lowest terms with a positive denominator
Q(n, d) ==
    LET g == GCD(Abs(n), Abs(d))
        s == IF d < 0 THEN -1 ELSE 1
    IN [n |-> (s * n) \div g, d |-> (s * d) \div g]

F(i) == Q(i, 1)
QMul(a, b) == Q(a.n * b.n, a.d * b.d)
QDiv(a, b) == Q(a.n * b.d, a.d * b.n)
QAdd(a, b) == Q(a.n * b.d + b.n * a.d, a.d * b.d)

\* x ** 0.5 for a float whose square root is rational
QSqrt(a) ==
    LET rn == CHOOSE r \in 0..a.n : r * r <= a.n /\ (r + 1) * (r + 1) > a.n
        rd == CHOOSE r \in 1..a.d : r * r <= a.d /\ (r + 1) * (r + 1) > a.d
    IN Q(rn, rd)

Zero3 == <<F(0), F(0), F(0)>>

\* ------------------------------------------------- results that may raise
Ok(v) == [ok |-> TRUE, val |-> v]
Raised == [ok |-> FALSE, val |-> F(0)]

\* float(s) on the strings the environment can hold; anything else is a ValueError
ParseFloat(s) ==
    CASE s = "1.6"  -> Ok(Q(16, 10))
      [] s = "0.32" -> Ok(Q(32, 100))
      [] s = "0.18" -> Ok(Q(18, 100))
      [] s = "0.07" -> Ok(Q(7, 100))
      [] s = "0.5"  -> Ok(Q(5, 10))
      [] s = "2"    -> Ok(F(2))
      [] OTHER      -> Raised

\* str.lower() on the strings the environment can hold
Lower(s) ==
    CASE s = "CARTESIAN" -> "cartesian"
      [] s = "Cartesian" -> "cartesian"
      [] s = "LATTICE"   -> "lattice"
      [] OTHER           -> s

\* os.getenv(name, default)
Getenv(e, name, default) == IF name \in DOMAIN e THEN e[name] ELSE default

EnvNames == {"CT_AXES_MODE", "CT_AXES_SCALE", "CT_AXES_HEAD_LENGTH",
             "CT_AXES_HEAD_WIDTH", "CT_AXES_RADIUS"}

\* the settings the model draws each variable from ("" stands for: not set)
ModeSettings  == {"", "cartesian", "CARTESIAN", "hexagonal"}
FloatSettings == {"", "2", "abc"}
SizeSettings  == {"", "0.5", "abc"}

Environments ==
    { [n \in {m \in EnvNames : f[m] # ""} |-> f[n]] :
        f \in { g \in [EnvNames -> ModeSettings \cup FloatSettings \cup SizeSettings] :
                  /\ g["CT_AXES_MODE"] \in ModeSettings
                  /\ g["CT_AXES_SCALE"] \in FloatSettings
                  /\ \A m \in EnvNames \ {"CT_AXES_MODE", "CT_AXES_SCALE"} :
                        g[m] \in SizeSettings } }

\* ------------------------------------------------------ lattices, scenes
Num(i) == [t |-> "num", x |-> i]
Str(s) == [t |-> "str", x |-> 0]
Vec(a, b, c) == <<Num(a), Num(b), Num(c)>>

NoneLattice == [kind |-> "None", hasMatrix |-> FALSE, matrix |-> <<>>]
LatticeOf(m) == [kind |-> "Lattice", hasMatrix |-> TRUE, matrix |-> m]
NoMatrixLattice == [kind |-> "Lattice", hasMatrix |-> FALSE, matrix |-> <<>>]

Matrices ==
    { <<Vec(1, 0, 0), Vec(0, 1, 0), Vec(0, 0, 1)>>,        \* orthogonal unit lattice
      <<Vec(3, 4, 0), Vec(0, -2, 0), Vec(2, 3, 6)>>,       \* skewed lattice
      <<Vec(3, 0, 4), Vec(0, 0, 0), Vec(0, 0, 2)>>,        \* a zero-vector row
      <<Vec(1, 0, 0), <<Num(0), Num(1)>>, Vec(0, 0, 1)>>,  \* a row that is too short
      <<Vec(1, 0, 0), Vec(0, 1, 0), <<Num(0), Num(0), Str("c")>>>> }  \* a non-numeric row

Lattices == {NoneLattice, NoMatrixLattice} \cup {LatticeOf(m) : m \in Matrices}

NoStructure == [hasLattice |-> FALSE, lattice |-> NoneLattice]
Structures == {NoStructure} \cup {[hasLattice |-> TRUE, lattice |-> l] : l \in Lattices}

\* getattr with a misspelt attribute name: always the default
GetLattice_Misspelled(s) == NoneLattice

\* getattr(structure, "lattice", None)
GetLattice(s) == IF s.hasLattice THEN s.lattice ELSE NoneLattice

List(items) == [kind |-> "list", items |-> items]
NotAList == [kind |-> "NoneType", items |-> <<>>]

NodeNames == {"atoms", "unit_cell"}
SceneNode(name) == [name |-> name]

RECURSIVE SeqsUpTo(_, _)
SeqsUpTo(S, n) ==
    IF n = 0 THEN {<<>>}
    ELSE LET shorter == SeqsUpTo(S, n - 1)
         IN shorter \cup {Append(q, x) : q \in shorter, x \in S}

ContentsValues ==
    {NotAList} \cup {List(q) : q \in SeqsUpTo({SceneNode(n) : n \in NodeNames}, MaxContents)}

SceneOrigin == <<F(1), F(2), F(3)>>
EmptyScene == [k \in {} |-> 0]
NamedScene == ("name" :> "StructureGraph")

\* the mappings scene_obj.to_json() can return
Scenes ==
    LET withOrigin(s) == {s, s @@ ("origin" :> SceneOrigin)}
        withContents == {NamedScene} \cup {NamedScene @@ ("contents" :> c) : c \in ContentsValues}
    IN UNION {withOrigin(s) : s \in withContents}

\* ---------------------------------------------------------------- errors
NoOutcome == [kind |-> "none", status |-> 0, detail |-> ""]
Returned == [kind |-> "return", status |-> 0, detail |-> ""]
HTTPException(status, detail) == [kind |-> "raise", status |-> status, detail |-> detail]

\* what an external-library call can raise
PlainException == [http |-> FALSE, status |-> 0, detail |-> "ValueError"]
HTTPExceptions == {[http |-> TRUE, status |-> 404, detail |-> "Not Found"],
                   [http |-> TRUE, status |-> 503, detail |-> "Service Unavailable"]}
Exceptions == {PlainException} \cup HTTPExceptions
NoException == [http |-> FALSE, status |-> 0, detail |-> ""]
ImportError == [http |-> FALSE, status |-> 0, detail |-> "ImportError"]

DependencyError == HTTPException(HTTP_500_INTERNAL_SERVER_ERROR, DependencyDetail)

\* one message shared by the three loaders
ParseFailureDetail_Shared(e) == "Unable to parse CIF file."

ParseFailureDetail(e) ==
    CASE e = "cif_file_to_scene"         -> "Unable to parse CIF file."
      [] e = "vasp_poscar_file_to_scene" -> "Unable to parse VASP POSCAR/CONTCAR file."
      [] e = "cif_string_to_scene"       -> "Unable to parse CIF content."

ParseFailureLog(e) ==
    CASE e = "cif_file_to_scene"         -> "Failed to parse CIF file"
      [] e = "vasp_poscar_file_to_scene" -> "Failed to parse VASP POSCAR/CONTCAR file"
      [] e = "cif_string_to_scene"       -> "Failed to parse CIF content"

ParseError(e) == HTTPException(HTTP_400_BAD_REQUEST, ParseFailureDetail(e))

\* without the "except HTTPException: raise" clause
SceneFailure_AlwaysWrapped(exc) ==
    HTTPException(HTTP_500_INTERNAL_SERVER_ERROR, SceneFailureDetail)

\* the except clauses of structure_to_scene_dict
SceneFailure(exc) ==
    IF exc.http THEN HTTPException(exc.status, exc.detail)
    ELSE HTTPException(HTTP_500_INTERNAL_SERVER_ERROR, SceneFailureDetail)

SceneFailureLogs(exc) ==
    IF exc.http THEN <<>> ELSE <<"Failed to build CrystalToolkit scene">>

\* ----------------------------------------------------------- _append_axes
FloatNames == <<"CT_AXES_SCALE", "CT_AXES_HEAD_LENGTH", "CT_AXES_HEAD_WIDTH", "CT_AXES_RADIUS">>
FloatDefaults == <<"1.6", "0.32", "0.18", "0.07">>
ModeDefault == "lattice"

Colors_Reordered == <<"red", "blue", "green">>

Colors == <<"red", "green", "blue">>

Min(a, b) == IF a < b THEN a ELSE b

\* lines 73-77: the five settings are read in order; the first float() that
\* raises ends the reading
ReadAxesConfig(e) ==
    LET p == [i \in 1..4 |-> ParseFloat(Getenv(e, FloatNames[i], FloatDefaults[i]))]
        bad == {i \in 1..4 : ~p[i].ok}
        firstBad == IF bad = {} THEN 5 ELSE CHOOSE i \in bad : \A j \in bad : i <= j
    IN [ok       |-> bad = {},
        parsed   |-> {"CT_AXES_MODE"} \cup {FloatNames[i] : i \in 1..Min(firstBad, 4)},
        mode     |-> Lower(Getenv(e, "CT_AXES_MODE", ModeDefault)),
        scale    |-> p[1].val,
        head_len |-> p[2].val,
        head_wid |-> p[3].val,
        radius   |-> p[4].val]

\* without "or 1.0": a zero norm is a ZeroDivisionError
Normalized_NoZeroGuard(vec, scale) ==
    IF Len(vec) < 3 \/ \E i \in 1..Len(vec) : vec[i].t # "num" THEN Raised
    ELSE LET sumsq == F(vec[1].x * vec[1].x + vec[2].x * vec[2].x + vec[3].x * vec[3].x)
             norm == QSqrt(sumsq)
         IN IF norm = F(0) THEN Raised
            ELSE Ok([i \in 1..Len(vec) |-> QMul(QDiv(F(vec[i].x), norm), scale)])

\* lines 88-90: vec[0..2] must exist and be numbers
Normalized(vec, scale) ==
    IF Len(vec) < 3 \/ \E i \in 1..Len(vec) : vec[i].t # "num" THEN Raised
    ELSE LET sumsq == F(vec[1].x * vec[1].x + vec[2].x * vec[2].x + vec[3].x * vec[3].x)
             root == QSqrt(sumsq)
             norm == IF root = F(0) THEN F(1) ELSE root
         IN Ok([i \in 1..Len(vec) |-> QMul(QDiv(F(vec[i].x), norm), scale)])

CartesianAxes(scale) ==
    << <<scale, F(0), F(0)>>, <<F(0), scale, F(0)>>, <<F(0), F(0), scale>> >>

\* lattice.matrix read before the mode is looked at
AxesVectors_MatrixFirst(mode, scale, lattice) ==
    IF ~lattice.hasMatrix THEN Raised
    ELSE IF mode = "cartesian" THEN Ok(CartesianAxes(scale))
    ELSE LET rows == [i \in 1..Len(lattice.matrix) |-> Normalized(lattice.matrix[i], scale)]
         IN IF \E i \in 1..Len(rows) : ~rows[i].ok THEN Raised
            ELSE Ok([i \in 1..Len(rows) |-> rows[i].val])

\* lines 79-92
AxesVectors(mode, scale, lattice) ==
    IF mode = "cartesian" THEN Ok(CartesianAxes(scale))
    ELSE IF ~lattice.hasMatrix THEN Raised
    ELSE LET rows == [i \in 1..Len(lattice.matrix) |-> Normalized(lattice.matrix[i], scale)]
         IN IF \E i \in 1..Len(rows) : ~rows[i].ok THEN Raised
            ELSE Ok([i \in 1..Len(rows) |-> rows[i].val])

Arrow(vec, color, cfg) ==
    [type          |-> "arrows",
     positionPairs |-> << <<Zero3, vec>> >>,
     color         |-> color,
     radius        |-> cfg.radius,
     headLength    |-> cfg.head_len,
     headWidth     |-> cfg.head_wid,
     clickable     |-> FALSE]

\* lines 94-107: zip(axes_vectors, colors)
ArrowNodes(axes_vectors, cfg) ==
    [i \in 1..Min(Len(axes_vectors), Len(Colors)) |-> Arrow(axes_vectors[i], Colors[i], cfg)]

\* dict.get(key, default)
DictGet(d, key, default) == IF key \in DOMAIN d THEN d[key] ELSE default

\* dict.setdefault(key, default): the mapping afterwards
Setdefault(d, key, default) == IF key \in DOMAIN d THEN d ELSE d @@ (key :> default)

AxesNode(contents, origin) ==
    [name |-> "axes", contents |-> contents, origin |-> origin, visible |-> TRUE]

\* what a call of _append_axes leaves behind: the scene, the settings it
\* read, whether it logged a skip, and whether an exception left the call
AxesResult(scene, parsed, skipped, raised) ==
    [scene |-> scene, parsed |-> parsed, skipped |-> skipped, raised |-> raised]

\* an except clause that logs and re-raises
Swallowed_Reraised(scene, parsed) == AxesResult(scene, parsed, TRUE, TRUE)

\* lines 117-118: the except clause logs at debug level and returns
Swallowed(scene, parsed) == AxesResult(scene, parsed, TRUE, FALSE)

\* lines 72-116: the try block
Augment(scene, lattice, e) ==
    LET cfg == ReadAxesConfig(e) IN
    IF ~cfg.ok THEN Swallowed(scene, cfg.parsed)
    ELSE LET av == AxesVectors(cfg.mode, cfg.scale, lattice) IN
         IF ~av.ok THEN Swallowed(scene, cfg.parsed)
         ELSE LET target == Setdefault(scene, "contents", List(<<>>))
                  node == AxesNode(ArrowNodes(av.val, cfg), DictGet(target, "origin", Zero3))
              IN IF target["contents"].kind # "list"
                 THEN Swallowed(target, cfg.parsed)
                 ELSE AxesResult([target EXCEPT !["contents"].items = Append(@, node)],
                                 cfg.parsed, FALSE, FALSE)

\* without the early return for lattice None
AppendAxes_NoNoneCheck(scene, lattice, e) == Augment(scene, lattice, e)

\* lines 66-118
AppendAxes(scene, lattice, e) ==
    IF lattice.kind = "None" THEN AxesResult(scene, {}, FALSE, FALSE)
    ELSE Augment(scene, lattice, e)

\* ---------------------------------------------------------------- actions
Init ==
    /\ env \in Environments
    /\ importable \in SUBSET Modules
    /\ pc = "idle"
    /\ entry = ""
    /\ structure = NoStructure
    /\ scene_json = EmptyScene
    /\ outcome = NoOutcome
    /\ logged = <<>>
    /\ steps = <<>>
    /\ caught = NoException
    /\ envParsed = {}

\* an except clause caught cause, logs, and ends the call by raising error
Raise(error, cause, logs) ==
    /\ pc' = "done"
    /\ outcome' = error
    /\ caught' = cause
    /\ logged' = logged \o logs

\* a caller invokes one of the public entry points
CallLoader ==
    /\ pc \in {"idle", "done"}
    /\ \E e \in Loaders : entry' = e
    /\ pc' = "import"
    /\ structure' = NoStructure
    /\ scene_json' = EmptyScene
    /\ outcome' = NoOutcome
    /\ logged' = <<>>
    /\ steps' = <<>>
    /\ caught' = NoException
    /\ envParsed' = {}
    /\ UNCHANGED <<env, importable>>

CallStructureToSceneDict ==
    /\ pc \in {"idle", "done"}
    /\ entry' = "structure_to_scene_dict"
    /\ pc' = "ensure"
    /\ \E s \in Structures : structure' = s
    /\ scene_json' = EmptyScene
    /\ outcome' = NoOutcome
    /\ logged' = <<>>
    /\ steps' = <<>>
    /\ caught' = NoException
    /\ envParsed' = {}
    /\ UNCHANGED <<env, importable>>

\* loaders, first try block: from pymatgen.core.structure import Structure
ImportStructure ==
    /\ pc = "import"
    /\ steps' = Append(steps, "import")
    /\ IF StructureModule \in importable
       THEN pc' = "parse" /\ UNCHANGED <<outcome, logged, caught>>
       ELSE Raise(DependencyError, ImportError, <<>>)
    /\ UNCHANGED <<env, importable, entry, structure, scene_json, envParsed>>

\* loaders, second try block: Structure.from_file / Structure.from_str
ParseOk ==
    /\ pc = "parse"
    /\ steps' = Append(steps, "parse")
    /\ \E s \in Structures : structure' = s
    /\ pc' = "ensure"
    /\ UNCHANGED <<env, importable, entry, scene_json, outcome, logged, caught, envParsed>>

ParseRaises ==
    /\ pc = "parse"
    /\ steps' = Append(steps, "parse")
    /\ \E exc \in Exceptions : Raise(ParseError(entry), exc, <<ParseFailureLog(entry)>>)
    /\ UNCHANGED <<env, importable, entry, structure, scene_json, envParsed>>

\* a guard that forgets the crystal_toolkit imports
GuardPasses_PymatgenOnly(mods) ==
    {"pymatgen.analysis.graphs", "pymatgen.analysis.local_env"} \subseteq mods

\* lines 17-25: the four imports of the guard all succeed
GuardPasses(mods) == GuardModules \subseteq mods

\* _ensure_crystal_dependencies, called first by structure_to_scene_dict
EnsureCrystalDependencies ==
    /\ pc = "ensure"
    /\ steps' = Append(steps, "ensure")
    /\ IF GuardPasses(importable)
       THEN pc' = "graph" /\ UNCHANGED <<outcome, logged, caught>>
       ELSE Raise(DependencyError, ImportError, <<>>)
    /\ UNCHANGED <<env, importable, entry, structure, scene_json, envParsed>>

\* the legend built before the graph
StepAfter_LegendFirst(step) ==
    CASE step = "graph"     -> "get_scene"
      [] step = "legend"    -> "graph"
      [] step = "get_scene" -> "to_json"
      [] step = "to_json"   -> "axes"

\* the step after each external call of the try block of structure_to_scene_dict
StepAfter(step) ==
    CASE step = "graph"     -> "legend"
      [] step = "legend"    -> "get_scene"
      [] step = "get_scene" -> "to_json"
      [] step = "to_json"   -> "axes"

BuildSteps == {"graph", "legend", "get_scene", "to_json"}

\* StructureGraph.from_local_env_strategy, Legend(...), graph.get_scene(...)
BuildStepOk ==
    /\ pc \in BuildSteps \ {"to_json"}
    /\ steps' = Append(steps, pc)
    /\ pc' = StepAfter(pc)
    /\ UNCHANGED <<env, importable, entry, structure, scene_json, outcome, logged, caught, envParsed>>

\* scene_obj.to_json()
ToJsonOk ==
    /\ pc = "to_json"
    /\ steps' = Append(steps, pc)
    /\ \E s \in Scenes : scene_json' = s
    /\ pc' = StepAfter(pc)
    /\ UNCHANGED <<env, importable, entry, structure, outcome, logged, caught, envParsed>>

BuildStepRaises ==
    /\ pc \in BuildSteps
    /\ steps' = Append(steps, pc)
    /\ \E exc \in Exceptions : Raise(SceneFailure(exc), exc, SceneFailureLogs(exc))
    /\ UNCHANGED <<env, importable, entry, structure, scene_json, envParsed>>

\* _append_axes(scene_json, getattr(structure, "lattice", None)); return scene_json
AppendAxesAndReturn ==
    /\ pc = "axes"
    /\ steps' = Append(steps, "axes")
    /\ LET r == AppendAxes(scene_json, GetLattice(structure), env)
       IN /\ scene_json' = r.scene
          /\ envParsed' = r.parsed
          /\ IF r.raised
             THEN Raise(SceneFailure(PlainException), PlainException,
                        SceneFailureLogs(PlainException))
             ELSE /\ pc' = "done"
                  /\ outcome' = Returned
                  /\ caught' = caught
                  /\ logged' = IF r.skipped
                               THEN Append(logged, "Skipping axes augmentation due to error")
                               ELSE logged
    /\ UNCHANGED <<env, importable, entry, structure>>

Next ==
    \/ CallLoader
    \/ CallStructureToSceneDict
    \/ ImportStructure
    \/ ParseOk
    \/ ParseRaises
    \/ EnsureCrystalDependencies
    \/ BuildStepOk
    \/ ToJsonOk
    \/ BuildStepRaises
    \/ AppendAxesAndReturn

Spec == Init /\ [][Next]_vars

\* ===================================================================
\* Properties
\* ===================================================================
Last(q) == q[Len(q)]
Ran(q) == {q[i] : i \in 1..Len(q)}
IsPrefix(a, b) == Len(a) <= Len(b) /\ SubSeq(b, 1, Len(a)) = a

LoaderOrder == <<"import", "parse", "ensure", "graph", "legend", "get_scene", "to_json", "axes">>
DirectOrder == <<"ensure", "graph", "legend", "get_scene", "to_json", "axes">>

\* the call has ended and s was its last step
EndedAt(s) == pc = "done" /\ steps # <<>> /\ Last(steps) = s

InstallError ==
    [kind |-> "raise", status |-> 500,
     detail |-> "Crystal structure dependencies are unavailable. Install 'pymatgen' and 'crystal-toolkit'."]
GenericError ==
    [kind |-> "raise", status |-> 500,
     detail |-> "Failed to generate crystal scene from structure."]
BadRequest(e) ==
    [kind |-> "raise", status |-> 400,
     detail |-> CASE e = "cif_file_to_scene"         -> "Unable to parse CIF file."
                  [] e = "vasp_poscar_file_to_scene" -> "Unable to parse VASP POSCAR/CONTCAR file."
                  [] e = "cif_string_to_scene"       -> "Unable to parse CIF content."
                  [] OTHER                           -> ""]
Propagated(x) == [kind |-> "raise", status |-> x.status, detail |-> x.detail]

\* the modules an entry point imports on its way to a scene
Required(e) == IF e \in Loaders THEN Modules ELSE GuardModules

\* the lattice argument of _append_axes is not None
LatticeGiven == structure.hasLattice /\ structure.lattice.kind # "None"

Unset(name) == name \notin DOMAIN env
NumericSetting(name) == Unset(name) \/ env[name] \in {"2", "0.5"}
AllNumeric == \A name \in EnvNames \ {"CT_AXES_MODE"} : NumericSetting(name)
CartesianMode == ~Unset("CT_AXES_MODE") /\ env["CT_AXES_MODE"] \in {"cartesian", "CARTESIAN"}

\* the value a numeric setting stands for
SettingValue(name, default) ==
    IF Unset(name) THEN default
    ELSE IF env[name] = "2" THEN [n |-> 2, d |-> 1] ELSE [n |-> 1, d |-> 2]
ScaleValue   == SettingValue("CT_AXES_SCALE", [n |-> 8, d |-> 5])
HeadLenValue == SettingValue("CT_AXES_HEAD_LENGTH", [n |-> 8, d |-> 25])
HeadWidValue == SettingValue("CT_AXES_HEAD_WIDTH", [n |-> 9, d |-> 50])
RadiusValue  == SettingValue("CT_AXES_RADIUS", [n |-> 7, d |-> 100])

UsableRow(r) == Len(r) = 3 /\ \A j \in 1..3 : r[j].t = "num"
UsableMatrix ==
    /\ structure.lattice.hasMatrix
    /\ Len(structure.lattice.matrix) = 3
    /\ \A i \in 1..3 : UsableRow(structure.lattice.matrix[i])

Appendable(scene) == "contents" \notin DOMAIN scene \/ scene["contents"].kind = "list"
ItemsOf(scene) ==
    IF "contents" \in DOMAIN scene /\ scene["contents"].kind = "list"
    THEN scene["contents"].items ELSE <<>>
HasAxes(scene) == \E i \in 1..Len(ItemsOf(scene)) : ItemsOf(scene)[i].name = "axes"
Endpoint(node, i) == node.contents[i].positionPairs[1][2]

Zero == [n |-> 0, d |-> 1]
Origin0 == <<Zero, Zero, Zero>>

\* nothing that _append_axes needs is missing or malformed
AxesCanSucceed ==
    /\ LatticeGiven
    /\ AllNumeric
    /\ CartesianMode \/ UsableMatrix
    /\ Appendable(scene_json)

\* ------------------------------------------------------------------- C1
\* C1 (as stated): whenever a call has ended and one of the modules its entry
\* point imports cannot be imported, the call raised the 500 error with the
\* installation message.
C1_AnyMissingDependencyIs500 ==
    (pc = "done" /\ ~(Required(entry) \subseteq importable)) => outcome = InstallError

\* C1 (amended): the 500 installation error is raised when a loader cannot
\* import the structure-parsing type, and when structure_to_scene_dict is
\* reached (directly, or by a loader whose input parsed) and a guard import
\* fails; a loader whose input does not parse raises its 400 error even
\* though a guard import would fail.
C1_MissingDependencyIs500UnlessParseFails ==
    pc = "done" =>
        /\ (entry \in Loaders /\ StructureModule \notin importable) => outcome = InstallError
        /\ ("ensure" \in Ran(steps) /\ ~(GuardModules \subseteq importable))
              => outcome = InstallError
        /\ ~(Required(entry) \subseteq importable)
              => \/ outcome = InstallError
                 \/ /\ entry \in Loaders
                    /\ StructureModule \in importable
                    /\ Last(steps) = "parse"
                    /\ outcome = BadRequest(entry)

C1_Witness ==
    /\ EndedAt("ensure")
    /\ entry = "cif_string_to_scene"
    /\ StructureModule \in importable
    /\ "crystal_toolkit.core.legend" \notin importable
    /\ outcome = InstallError

\* ------------------------------------------------------------------- C2
\* C2: a loader whose structure-parsing import succeeded and whose parse
\* raised ends with the 400 error carrying its own detail, and
\* structure_to_scene_dict was never entered.
C2_ParseFailureIs400 ==
    (EndedAt("parse") /\ caught # NoException) =>
        /\ entry \in Loaders
        /\ outcome = BadRequest(entry)
        /\ "ensure" \notin Ran(steps)
        /\ scene_json = EmptyScene

C2_Witness ==
    /\ EndedAt("parse")
    /\ entry = "vasp_poscar_file_to_scene"
    /\ caught.http
    /\ outcome.status = 400
    /\ outcome.detail = "Unable to parse VASP POSCAR/CONTCAR file."

\* ------------------------------------------------------------------- C3
\* C3: after the guard has passed, an exception raised by building the graph,
\* the legend, the scene or its JSON ends the call with the generic 500
\* error, except that an HTTPException ends it with its own status and detail.
C3_BuildFailureWrappedOnce ==
    (pc = "done" /\ steps # <<>> /\ Last(steps) \in BuildSteps /\ caught # NoException) =>
        IF caught.http THEN outcome = Propagated(caught) ELSE outcome = GenericError

C3_Witness ==
    /\ EndedAt("to_json")
    /\ caught.http
    /\ outcome.status = 404
    /\ outcome.detail = "Not Found"

\* ------------------------------------------------------------------- C4
\* C4: the _append_axes step always ends the call by returning the scene, and
\* when a setting is not numeric, the lattice has no usable matrix (in lattice
\* mode) or the scene's contents is not a list, the scene is left as it was.
C4_AxesFailureSwallowed ==
    [][pc = "axes" =>
          /\ pc' = "done"
          /\ outcome' = Returned
          /\ (LatticeGiven /\ ~AxesCanSucceed) => scene_json' = scene_json]_vars

C4_Witness ==
    /\ EndedAt("axes")
    /\ outcome = Returned
    /\ LatticeGiven
    /\ ~Unset("CT_AXES_RADIUS") /\ env["CT_AXES_RADIUS"] = "abc"
    /\ Len(ItemsOf(scene_json)) = 1
    /\ ~HasAxes(scene_json)
    /\ Last(logged) = "Skipping axes augmentation due to error"

\* ------------------------------------------------------------------- C5
CartesianDefaultScale ==
    /\ ~Unset("CT_AXES_MODE") /\ env["CT_AXES_MODE"] = "cartesian"
    /\ Unset("CT_AXES_SCALE")

UnitAxesAppended ==
    /\ HasAxes(scene_json)
    /\ LET node == Last(ItemsOf(scene_json))
           s == [n |-> 8, d |-> 5]
       IN /\ node.name = "axes"
          /\ Len(node.contents) = 3
          /\ Endpoint(node, 1) = <<s, Zero, Zero>>
          /\ Endpoint(node, 2) = <<Zero, s, Zero>>
          /\ Endpoint(node, 3) = <<Zero, Zero, s>>

\* C5 (as stated): with CT_AXES_MODE=cartesian and CT_AXES_SCALE unset, after
\* _append_axes the scene has an axes node with endpoints (1.6,0,0),
\* (0,1.6,0), (0,0,1.6), whatever lattice was passed, None included.
C5_CartesianAlwaysUnitAxes ==
    (EndedAt("axes") /\ CartesianDefaultScale) => UnitAxesAppended

\* C5 (amended): with CT_AXES_MODE=cartesian and CT_AXES_SCALE unset, a
\* lattice that is not None, the three size settings unset or numeric and a
\* scene whose contents is a list or missing, after _append_axes the scene
\* ends with an axes node with endpoints (1.6,0,0), (0,1.6,0), (0,0,1.6),
\* whatever the lattice's matrix is (missing or malformed included).
C5_CartesianUnitAxesWhenAugmented ==
    (EndedAt("axes") /\ CartesianDefaultScale /\ LatticeGiven /\ AllNumeric
        /\ Appendable(scene_json)) => UnitAxesAppended

C5_Witness ==
    /\ EndedAt("axes")
    /\ CartesianDefaultScale
    /\ LatticeGiven
    /\ ~structure.lattice.hasMatrix
    /\ UnitAxesAppended

\* ------------------------------------------------------------------- C6
\* C6 (as stated): a call that returned a scene for a structure whose lattice
\* is present returned a contents list with a node named "axes", whatever the
\* CT_AXES_* settings are.
C6_ReturnedSceneHasAxes ==
    (pc = "done" /\ outcome = Returned /\ LatticeGiven) => HasAxes(scene_json)

\* C6 (amended): a call that returned a scene for a structure whose lattice
\* is present returned a contents list with a node named "axes", provided the
\* numeric CT_AXES_* settings are unset or numeric, the lattice has a matrix
\* of three numeric 3-vectors or the mode is cartesian, and the serialized
\* scene's contents is a list or missing.
C6_ReturnedSceneHasAxesWhenAugmentable ==
    (pc = "done" /\ outcome = Returned /\ LatticeGiven /\ AllNumeric
        /\ (CartesianMode \/ UsableMatrix) /\ Appendable(scene_json))
    => ("contents" \in DOMAIN scene_json /\ HasAxes(scene_json))

C6_Witness ==
    /\ pc = "done"
    /\ entry = "cif_string_to_scene"
    /\ outcome = Returned
    /\ LatticeGiven
    /\ ~Unset("CT_AXES_HEAD_WIDTH") /\ env["CT_AXES_HEAD_WIDTH"] = "0.5"
    /\ HasAxes(scene_json)

\* ------------------------------------------------------------------- C7
\* C7: with lattice None the _append_axes step returns the scene exactly as
\* it was (no contents key created, nothing appended), reads no setting and
\* logs nothing.
C7_NoneLatticeLeavesScene ==
    [][(pc = "axes" /\ ~LatticeGiven) =>
          /\ scene_json' = scene_json
          /\ envParsed' = {}
          /\ logged' = logged
          /\ outcome' = Returned]_vars

C7_Witness ==
    /\ EndedAt("axes")
    /\ structure.hasLattice /\ structure.lattice.kind = "None"
    /\ ~Unset("CT_AXES_SCALE") /\ env["CT_AXES_SCALE"] = "abc"
    /\ "contents" \notin DOMAIN scene_json
    /\ envParsed = {}
    /\ outcome = Returned

\* ------------------------------------------------------------------- C8
SumSq(row) == row[1].x * row[1].x + row[2].x * row[2].x + row[3].x * row[3].x
SqLen(v) == QAdd(QAdd(QMul(v[1], v[1]), QMul(v[2], v[2])), QMul(v[3], v[3]))

\* end is row scaled to length scale, or the zero vector for a zero row
ScaledRow(row, end, scale) ==
    /\ Len(end) = 3
    /\ IF SumSq(row) = 0
       THEN \A j \in 1..3 : end[j] = Zero
       ELSE /\ SqLen(end) = QMul(scale, scale)
            /\ \E k \in 1..SumSq(row) :
                  /\ k * k = SumSq(row)
                  /\ \A j \in 1..3 : end[j].n * k * scale.d = row[j].x * scale.n * end[j].d

\* C8: when the mode is not "cartesian" in any letter case and nothing
\* _append_axes needs is missing, the appended node has three arrows whose
\* endpoints are the lattice rows scaled to length CT_AXES_SCALE, a zero row
\* giving a zero-length arrow without disturbing the others; "CARTESIAN" is
\* cartesian mode.
C8_LatticeRowsNormalized ==
    (EndedAt("axes") /\ AxesCanSucceed) =>
        /\ HasAxes(scene_json)
        /\ LET node == Last(ItemsOf(scene_json))
           IN /\ Len(node.contents) = 3
              /\ ~CartesianMode =>
                    \A i \in 1..3 :
                       ScaledRow(structure.lattice.matrix[i], Endpoint(node, i), ScaleValue)
              /\ CartesianMode =>
                    /\ Endpoint(node, 1) = <<ScaleValue, Zero, Zero>>
                    /\ Endpoint(node, 2) = <<Zero, ScaleValue, Zero>>
                    /\ Endpoint(node, 3) = <<Zero, Zero, ScaleValue>>

C8_Witness ==
    /\ EndedAt("axes")
    /\ AxesCanSucceed
    /\ ~Unset("CT_AXES_MODE") /\ env["CT_AXES_MODE"] = "hexagonal"
    /\ structure.lattice.matrix[1] = Vec(3, 0, 4)
    /\ structure.lattice.matrix[2] = Vec(0, 0, 0)
    /\ HasAxes(scene_json)
    /\ Endpoint(Last(ItemsOf(scene_json)), 2) = Origin0
    /\ Endpoint(Last(ItemsOf(scene_json)), 1) = <<[n |-> 24, d |-> 25], Zero, [n |-> 32, d |-> 25]>>

\* ------------------------------------------------------------------- C9
AxisColors == <<"red", "green", "blue">>

AxesNodeShape(node, old) ==
    /\ node.name = "axes"
    /\ node.visible = TRUE
    /\ node.origin = IF "origin" \in DOMAIN old THEN old["origin"] ELSE Origin0
    /\ Len(node.contents) = 3
    /\ \A i \in 1..3 :
          LET a == node.contents[i]
          IN /\ a.type = "arrows"
             /\ Len(a.positionPairs) = 1
             /\ a.positionPairs[1][1] = Origin0
             /\ a.color = AxisColors[i]
             /\ a.radius = RadiusValue
             /\ a.headLength = HeadLenValue
             /\ a.headWidth = HeadWidValue

AugmentedBy(old, new) ==
    /\ DOMAIN new = DOMAIN old \cup {"contents"}
    /\ \A k \in DOMAIN old \ {"contents"} : new[k] = old[k]
    /\ new["contents"].kind = "list"
    /\ Len(ItemsOf(new)) = Len(ItemsOf(old)) + 1
    /\ SubSeq(ItemsOf(new), 1, Len(ItemsOf(old))) = ItemsOf(old)
    /\ AxesNodeShape(Last(ItemsOf(new)), old)

\* C9: a successful _append_axes appends exactly one node at the end of
\* contents and changes nothing else; the node is named "axes", visible, at
\* the scene's origin (or the zero vector), with three arrows from the origin,
\* red, green and blue in order, carrying the configured radius, head length
\* and head width.
C9_ExactlyOneAxesNodeAppended ==
    [][(pc = "axes" /\ AxesCanSucceed) => AugmentedBy(scene_json, scene_json')]_vars

C9_Witness ==
    /\ EndedAt("axes")
    /\ AxesCanSucceed
    /\ "origin" \in DOMAIN scene_json
    /\ Len(ItemsOf(scene_json)) = 2
    /\ ItemsOf(scene_json)[1].name = "atoms"
    /\ ItemsOf(scene_json)[2].name = "axes"
    /\ ItemsOf(scene_json)[2].origin = scene_json["origin"]
    /\ ~Unset("CT_AXES_RADIUS") /\ env["CT_AXES_RADIUS"] = "0.5"
    /\ ItemsOf(scene_json)[2].contents[3].color = "blue"
    /\ ItemsOf(scene_json)[2].contents[3].radius = [n |-> 1, d |-> 2]

\* ------------------------------------------------------------------ C10
ExpectedOrder == IF entry \in Loaders THEN LoaderOrder ELSE DirectOrder

Fresh ==
    /\ outcome = NoOutcome
    /\ logged = <<>>
    /\ caught = NoException
    /\ scene_json = EmptyScene
    /\ envParsed = {}

\* the outcome the last step of an ended call stands for
EndsAsStated ==
    CASE Last(steps) \in {"import", "ensure"} -> outcome = InstallError
      [] Last(steps) = "parse"                -> outcome = BadRequest(entry)
      [] Last(steps) \in BuildSteps           -> outcome = GenericError
      [] Last(steps) = "axes"                 -> outcome = Returned

EndsAsCoded ==
    CASE Last(steps) \in {"import", "ensure"} -> outcome = InstallError
      [] Last(steps) = "parse"                -> outcome = BadRequest(entry)
      [] Last(steps) \in BuildSteps           ->
            IF caught.http THEN outcome = Propagated(caught) ELSE outcome = GenericError
      [] Last(steps) = "axes"                 -> outcome = Returned

\* C10 (as stated): the steps of a loader call run in the fixed order, each
\* only after the earlier ones succeeded and none twice; the first failing
\* step decides the outcome (import: 500 install, parse: 400, guard: 500
\* install, build or serialize: 500 generic, axes: scene returned), so a call
\* ends with a scene, a 400 or a 500; a call starts from nothing.
C10_LinearFirstFailureDecides ==
    entry \in Loaders =>
        /\ IsPrefix(steps, LoaderOrder)
        /\ (pc \notin {"idle", "done"} /\ steps = <<>>) => Fresh
        /\ pc = "done" => (EndsAsStated /\ (outcome = Returned \/ outcome.status \in {400, 500}))

\* C10 (amended): as stated, except that a build or serialize step that
\* raises an HTTPException ends the call with that exception's own status and
\* detail, so a call ends with a scene, a 400, a 500 or that propagated error.
C10_LinearFirstFailureDecidesOrPropagates ==
    entry \in EntryPoints =>
        /\ IsPrefix(steps, ExpectedOrder)
        /\ (pc \notin {"idle", "done"} /\ steps = <<>>) => Fresh
        /\ pc = "done" =>
              /\ EndsAsCoded
              /\ \/ outcome = Returned
                 \/ outcome.status \in {400, 500}
                 \/ (caught.http /\ Last(steps) \in BuildSteps /\ outcome.status = caught.status)

C10_Witness ==
    /\ pc = "done"
    /\ entry = "cif_file_to_scene"
    /\ steps = <<"import", "parse", "ensure", "graph", "legend">>
    /\ caught.http
    /\ outcome.status = 503
    /\ outcome.detail = "Service Unavailable"

====
